---- MODULE Spec2Model ----
(***************************************************************************)
(* Cart-and-checkout state machine of the pizza ordering page              *)
(* (src/src/App.jsx): the App component's state, the OrderForm's draft,    *)
(* the two simulated remote calls and the handlers that mutate the cart.   *)
(*                                                                         *)
(* Every handler runs to completion and React re-renders before the next   *)
(* discrete event is delivered, so each action below is one event handler  *)
(* (or one promise continuation) together with the render that follows it. *)
(* Which handlers can be invoked in a state is decided by what the render  *)
(* of that state mounts and enables.                                       *)
(*                                                                         *)
(* Prices are held in cents.  All prices of MOCK_PIZZAS are multiples of   *)
(* 0.5, so the floating point sums of the source are exact.                *)
(* Text is a sequence: of characters for the form fields (trim works on    *)
(* characters), of words for the messages.  null is the empty sequence,    *)
(* a present value v is <<v>>.                                             *)
(***************************************************************************)
EXTENDS Integers, Sequences, FiniteSets, TLC

VARIABLES
    pizzas,             \* App: useState([])
    cart,               \* App: useState([]), lines {id, name, description, price, quantity}
    isPizzaLoading,     \* App: useState(true)
    pizzaError,         \* App: useState(null)
    isSubmitting,       \* App: useState(false)
    submissionError,    \* App: useState(null)
    orderConfirmation,  \* App: useState(null)
    name,               \* OrderForm: useState('')
    address,            \* OrderForm: useState('')
    menuFetch,          \* the promise of fetchPizzas(): "pending", "resolved" or "rejected"
    fetchCalls,         \* number of fetchPizzas() calls issued
    inflight,           \* submitOrder() promises not yet settled, with the awaiting closure
    accepted,           \* number of OrderForm.handleSubmit invocations that called onSubmit
    calls,              \* number of submitOrder() calls issued
    unhandled,          \* number of rejections that left loadMenu or handleOrderSubmit uncaught
    addLog,             \* ids passed to handleAddToCart, in call order (kept by SpecAdds only)
    lastEvent           \* the handler or continuation that ran last, with its arguments

vars == <<pizzas, cart, isPizzaLoading, pizzaError, isSubmitting, submissionError,
          orderConfirmation, name, address, menuFetch, fetchCalls, inflight,
          accepted, calls, unhandled, addLog, lastEvent>>

menuVars == <<pizzas, isPizzaLoading, pizzaError, menuFetch, fetchCalls>>
formVars == <<name, address>>
countVars == <<accepted, calls, unhandled>>

---------------------------------------------------------------------------
(* Bounds *)

NumPizzas == 2      \* pizza cards of the list that get clicked (the first ones)
MaxItems == 3       \* pizzas in the cart, all lines together
MaxSubmits == 2     \* handleSubmit invocations that pass canSubmit
NumTimes == 2       \* distinct clock readings of the order service
MaxAdds == 4        \* logged handleAddToCart calls (SpecAdds)

---------------------------------------------------------------------------
(* Values *)

Null == <<>>

Event(op, id, n) == [op |-> op, id |-> id, n |-> n]

Some(v) == <<v>>

MOCK_PIZZAS ==
    << [id |-> 1, name |-> "Margherita", description |-> "Classic tomato, mozzarella, and basil.", price |-> 1250],
       [id |-> 2, name |-> "Pepperoni Feast", description |-> "Loaded with spicy pepperoni.", price |-> 1500],
       [id |-> 3, name |-> "Veggie Supreme", description |-> "Mushrooms, onions, peppers, olives.", price |-> 1450],
       [id |-> 4, name |-> "Hawaiian Delight", description |-> "Ham and pineapple.", price |-> 1600] >>

\* the pizza cards whose button gets clicked
ClickedCards == 1..(IF NumPizzas < Len(MOCK_PIZZAS) THEN NumPizzas ELSE Len(MOCK_PIZZAS))

PizzaErrorMessage == <<"Failed", "to", "load", "pizza", "menu.", "Please", "try", "again", "later.">>

SubmitErrorMessage == <<"Server", "rejected", "the", "order", "due", "to", "invalid", "data.">>

SubmissionFailedPrefix == <<"Order", "submission", "failed:">>

UnknownServerError == <<"Unknown", "Server", "Error">>

\* Rejections of submitOrder: the mock's error object, and one without a message.
SubmitErrors == { [message |-> SubmitErrorMessage], [message |-> Null] }

\* Clock readings: Date.now() / new Date() at the time the service answers.
Times == 1..NumTimes

\* Texts typed into the form fields.
FieldInputs == { <<>>, <<" ", " ">>, <<" ", "A", "l", " ">> }

\* Ids the handlers are called with: two of the catalog and one that is in no catalog.
CallIds == {MOCK_PIZZAS[1].id, MOCK_PIZZAS[2].id, 9}

\* Quantities handleUpdateQuantity is called with.
CallQuantities == {0 - 1, 0, 1, 2}

---------------------------------------------------------------------------
(* Pure functions *)

WhiteSpace == {" ", "\t", "\n"}

RECURSIVE trimStart(_)
trimStart(s) ==
    IF s # <<>> /\ Head(s) \in WhiteSpace THEN trimStart(Tail(s)) ELSE s

RECURSIVE trimEnd(_)
trimEnd(s) ==
    IF s # <<>> /\ s[Len(s)] \in WhiteSpace THEN trimEnd(SubSeq(s, 1, Len(s) - 1)) ELSE s

trim(s) == trimEnd(trimStart(s))

\* cart.reduce((sum, item) => sum + (item.price * item.quantity), 0)
RECURSIVE reduceTotal(_)
reduceTotal(c) ==
    IF c = <<>> THEN 0
    ELSE reduceTotal(SubSeq(c, 1, Len(c) - 1)) + c[Len(c)].price * c[Len(c)].quantity

\* handleAddToCart without the lookup of an existing line
handleAddToCartAlwaysAppends(prevCart, pizza) ==
    Append(prevCart, [id |-> pizza.id, name |-> pizza.name,
                      description |-> pizza.description, price |-> pizza.price,
                      quantity |-> 1])

\* handleAddToCart putting a new line in front
handleAddToCartPrepends(prevCart, pizza) ==
    IF \E i \in 1..Len(prevCart) : prevCart[i].id = pizza.id
    THEN [i \in 1..Len(prevCart) |->
            IF prevCart[i].id = pizza.id
            THEN [prevCart[i] EXCEPT !.quantity = prevCart[i].quantity + 1]
            ELSE prevCart[i]]
    ELSE <<[id |-> pizza.id, name |-> pizza.name,
            description |-> pizza.description, price |-> pizza.price,
            quantity |-> 1]>> \o prevCart

\* the updater handleAddToCart passes to setCart
handleAddToCart(prevCart, pizza) ==
    IF \E i \in 1..Len(prevCart) : prevCart[i].id = pizza.id
    THEN [i \in 1..Len(prevCart) |->
            IF prevCart[i].id = pizza.id
            THEN [prevCart[i] EXCEPT !.quantity = prevCart[i].quantity + 1]
            ELSE prevCart[i]]
    ELSE Append(prevCart, [id |-> pizza.id, name |-> pizza.name,
                           description |-> pizza.description, price |-> pizza.price,
                           quantity |-> 1])

\* the updater handleRemoveItem passes to setCart
handleRemoveItem(prevCart, pizzaId) ==
    SelectSeq(prevCart, LAMBDA item : item.id # pizzaId)

\* handleUpdateQuantity removing the line for negative quantities only
handleUpdateQuantityKeepsZero(prevCart, pizzaId, newQuantity) ==
    IF newQuantity < 0
    THEN handleRemoveItem(prevCart, pizzaId)
    ELSE [i \in 1..Len(prevCart) |->
            IF prevCart[i].id = pizzaId
            THEN [prevCart[i] EXCEPT !.quantity = newQuantity]
            ELSE prevCart[i]]

\* handleUpdateQuantity treating a non-positive quantity as "empty the cart"
handleUpdateQuantityClears(prevCart, pizzaId, newQuantity) ==
    IF newQuantity <= 0
    THEN IF \E i \in 1..Len(prevCart) : prevCart[i].id = pizzaId THEN <<>> ELSE prevCart
    ELSE [i \in 1..Len(prevCart) |->
            IF prevCart[i].id = pizzaId
            THEN [prevCart[i] EXCEPT !.quantity = newQuantity]
            ELSE prevCart[i]]

handleUpdateQuantity(prevCart, pizzaId, newQuantity) ==
    IF newQuantity <= 0
    THEN handleRemoveItem(prevCart, pizzaId)
    ELSE [i \in 1..Len(prevCart) |->
            IF prevCart[i].id = pizzaId
            THEN [prevCart[i] EXCEPT !.quantity = newQuantity]
            ELSE prevCart[i]]

\* OrderForm: the total it displays and hands to onSubmit
total == reduceTotal(cart)

\* canSubmit comparing the fields without trimming them
canSubmitUntrimmed ==
    /\ Len(cart) > 0
    /\ name # <<>>
    /\ address # <<>>
    /\ ~isSubmitting

\* canSubmit without the isSubmitting test
canSubmitWhileSubmitting ==
    /\ Len(cart) > 0
    /\ trim(name) # <<>>
    /\ trim(address) # <<>>

canSubmit ==
    /\ Len(cart) > 0
    /\ trim(name) # <<>>
    /\ trim(address) # <<>>
    /\ ~isSubmitting

\* payload lines that drop the quantity
payloadItemsUnitQuantity(c) ==
    [i \in 1..Len(c) |-> [pizzaId |-> c[i].id, quantity |-> 1]]

\* items: cart.map(item => ({ pizzaId: item.id, quantity: item.quantity }))
payloadItems(c) ==
    [i \in 1..Len(c) |-> [pizzaId |-> c[i].id, quantity |-> c[i].quantity]]

orderPayload(n, a, t) ==
    [customerName |-> n, address |-> a, items |-> payloadItems(cart), total |-> t]

\* the message without the reason of the failure
submissionErrorTextGeneric(error) ==
    SubmissionFailedPrefix \o UnknownServerError

\* `Order submission failed: ${error.message || "Unknown Server Error"}`
submissionErrorText(error) ==
    SubmissionFailedPrefix \o
        (IF error.message # Null THEN error.message ELSE UnknownServerError)

\* number of pizzas in the cart
RECURSIVE itemCount(_)
itemCount(c) == IF c = <<>> THEN 0 ELSE Head(c).quantity + itemCount(Tail(c))

RemoveAt(s, i) == SubSeq(s, 1, i - 1) \o SubSeq(s, i + 1, Len(s))

---------------------------------------------------------------------------
(* What the render mounts *)

\* the confirmation screen replaces the whole page while orderConfirmation is set
MainViewMounted == orderConfirmation = Null

\* the pizza list rendered above the early return of the confirmation screen
PizzaListMountedOverConfirmation == ~isPizzaLoading /\ pizzaError = Null

\* the pizza cards are listed only when the menu has loaded without error
PizzaListMounted == MainViewMounted /\ ~isPizzaLoading /\ pizzaError = Null

---------------------------------------------------------------------------
(* Initial state: App and OrderForm mounted, the effect has called fetchPizzas *)

Init ==
    /\ pizzas = <<>>
    /\ cart = <<>>
    /\ isPizzaLoading = TRUE
    /\ pizzaError = Null
    /\ isSubmitting = FALSE
    /\ submissionError = Null
    /\ orderConfirmation = Null
    /\ name = <<>>
    /\ address = <<>>
    /\ menuFetch = "pending"
    /\ fetchCalls = 1
    /\ inflight = <<>>
    /\ accepted = 0
    /\ calls = 0
    /\ unhandled = 0
    /\ addLog = <<>>
    /\ lastEvent = Event("mount", 0, 0)

---------------------------------------------------------------------------
(* Menu loading *)

LoadMenuResolved ==
    /\ lastEvent' = Event("menuResolved", 0, 0)
    /\ menuFetch = "pending"
    /\ menuFetch' = "resolved"
    /\ pizzas' = MOCK_PIZZAS
    /\ isPizzaLoading' = FALSE
    /\ UNCHANGED <<pizzaError, fetchCalls>>
    /\ UNCHANGED <<cart, isSubmitting, submissionError, orderConfirmation, inflight>>
    /\ UNCHANGED <<formVars, countVars>>

\* loadMenu calling itself again from its catch block
LoadMenuRejectedRetries ==
    /\ lastEvent' = Event("menuRejected", 0, 0)
    /\ menuFetch = "pending"
    /\ menuFetch' = "pending"
    /\ fetchCalls' = fetchCalls + 1
    /\ pizzaError' = Some(PizzaErrorMessage)
    /\ isPizzaLoading' = FALSE
    /\ UNCHANGED pizzas
    /\ UNCHANGED <<cart, isSubmitting, submissionError, orderConfirmation, inflight>>
    /\ UNCHANGED <<formVars, countVars>>

LoadMenuRejected ==
    /\ lastEvent' = Event("menuRejected", 0, 0)
    /\ menuFetch = "pending"
    /\ menuFetch' = "rejected"
    /\ pizzaError' = Some(PizzaErrorMessage)
    /\ isPizzaLoading' = FALSE
    /\ UNCHANGED <<pizzas, fetchCalls>>
    /\ UNCHANGED <<cart, isSubmitting, submissionError, orderConfirmation, inflight>>
    /\ UNCHANGED <<formVars, countVars>>

---------------------------------------------------------------------------
(* Cart management *)

\* the pizza cards rendered from MOCK_PIZZAS whatever the state of the menu
AddToCartUngated(pizza) ==
    /\ lastEvent' = Event("addToCart", pizza.id, 0)
    /\ MainViewMounted
    /\ itemCount(cart) < MaxItems
    /\ cart' = handleAddToCart(cart, pizza)
    /\ submissionError' = Null
    /\ UNCHANGED <<isSubmitting, orderConfirmation, inflight>>
    /\ UNCHANGED <<menuVars, formVars, countVars>>

\* PizzaCard: onClick={() => onAddToCart(pizza)}
AddToCart(pizza) ==
    /\ lastEvent' = Event("addToCart", pizza.id, 0)
    /\ PizzaListMounted
    /\ \E i \in 1..Len(pizzas) : pizzas[i] = pizza
    /\ itemCount(cart) < MaxItems
    /\ cart' = handleAddToCart(cart, pizza)
    /\ submissionError' = Null
    /\ UNCHANGED <<isSubmitting, orderConfirmation, inflight>>
    /\ UNCHANGED <<menuVars, formVars, countVars>>

\* OrderSummary: the "-" button of line i, disabled when quantity <= 1
ClickMinus(i) ==
    /\ MainViewMounted
    /\ i \in 1..Len(cart)
    /\ ~(cart[i].quantity <= 1)
    /\ cart' = handleUpdateQuantity(cart, cart[i].id, cart[i].quantity - 1)
    /\ lastEvent' = Event("updateQuantity", cart[i].id, cart[i].quantity - 1)
    /\ UNCHANGED <<isSubmitting, submissionError, orderConfirmation, inflight>>
    /\ UNCHANGED <<menuVars, formVars, countVars>>

\* OrderSummary: the "+" button of line i
ClickPlus(i) ==
    /\ MainViewMounted
    /\ i \in 1..Len(cart)
    /\ itemCount(cart) < MaxItems
    /\ cart' = handleUpdateQuantity(cart, cart[i].id, cart[i].quantity + 1)
    /\ lastEvent' = Event("updateQuantity", cart[i].id, cart[i].quantity + 1)
    /\ UNCHANGED <<isSubmitting, submissionError, orderConfirmation, inflight>>
    /\ UNCHANGED <<menuVars, formVars, countVars>>

\* the "X" button also clearing the submission error
ClickRemoveClearsError(i) ==
    /\ MainViewMounted
    /\ i \in 1..Len(cart)
    /\ cart' = handleRemoveItem(cart, cart[i].id)
    /\ lastEvent' = Event("removeItem", cart[i].id, 0)
    /\ submissionError' = Null
    /\ UNCHANGED <<isSubmitting, orderConfirmation, inflight>>
    /\ UNCHANGED <<menuVars, formVars, countVars>>

\* OrderSummary: the "X" button of line i
ClickRemove(i) ==
    /\ MainViewMounted
    /\ i \in 1..Len(cart)
    /\ cart' = handleRemoveItem(cart, cart[i].id)
    /\ lastEvent' = Event("removeItem", cart[i].id, 0)
    /\ UNCHANGED <<isSubmitting, submissionError, orderConfirmation, inflight>>
    /\ UNCHANGED <<menuVars, formVars, countVars>>

\* handleUpdateQuantity called with any id and quantity
CallUpdateQuantity(pizzaId, newQuantity) ==
    /\ lastEvent' = Event("updateQuantity", pizzaId, newQuantity)
    /\ MainViewMounted
    /\ cart' = handleUpdateQuantity(cart, pizzaId, newQuantity)
    /\ itemCount(cart') <= MaxItems
    /\ UNCHANGED <<isSubmitting, submissionError, orderConfirmation, inflight>>
    /\ UNCHANGED <<menuVars, formVars, countVars>>

\* handleRemoveItem called with any id
CallRemoveItem(pizzaId) ==
    /\ lastEvent' = Event("removeItem", pizzaId, 0)
    /\ MainViewMounted
    /\ cart' = handleRemoveItem(cart, pizzaId)
    /\ UNCHANGED <<isSubmitting, submissionError, orderConfirmation, inflight>>
    /\ UNCHANGED <<menuVars, formVars, countVars>>

---------------------------------------------------------------------------
(* Checkout form *)

\* the name input without disabled={isSubmitting}
ChangeNameWhileSubmitting(text) ==
    /\ lastEvent' = Event("changeName", 0, 0)
    /\ MainViewMounted
    /\ name' = text
    /\ UNCHANGED <<address, cart, isSubmitting, submissionError, orderConfirmation, inflight>>
    /\ UNCHANGED <<menuVars, countVars>>

\* <input id="name" onChange={(e) => setName(e.target.value)} disabled={isSubmitting}>
ChangeName(text) ==
    /\ lastEvent' = Event("changeName", 0, 0)
    /\ MainViewMounted
    /\ ~isSubmitting
    /\ name' = text
    /\ UNCHANGED <<address, cart, isSubmitting, submissionError, orderConfirmation, inflight>>
    /\ UNCHANGED <<menuVars, countVars>>

\* <input id="address" onChange={(e) => setAddress(e.target.value)} disabled={isSubmitting}>
ChangeAddress(text) ==
    /\ lastEvent' = Event("changeAddress", 0, 0)
    /\ MainViewMounted
    /\ ~isSubmitting
    /\ address' = text
    /\ UNCHANGED <<name, cart, isSubmitting, submissionError, orderConfirmation, inflight>>
    /\ UNCHANGED <<menuVars, countVars>>

\* handleOrderSubmit without setSubmissionError(null)
handleOrderSubmitKeepsError(n, a, t) ==
    IF Len(cart) = 0 \/ isSubmitting
    THEN UNCHANGED <<isSubmitting, submissionError, orderConfirmation, inflight, calls>>
    ELSE /\ isSubmitting' = TRUE
         /\ orderConfirmation' = Null
         /\ inflight' = Append(inflight, [payload |-> orderPayload(n, a, t), total |-> t])
         /\ calls' = calls + 1
         /\ UNCHANGED submissionError

\* App.handleOrderSubmit up to the await
handleOrderSubmit(n, a, t) ==
    IF Len(cart) = 0 \/ isSubmitting
    THEN UNCHANGED <<isSubmitting, submissionError, orderConfirmation, inflight, calls>>
    ELSE /\ isSubmitting' = TRUE
         /\ submissionError' = Null
         /\ orderConfirmation' = Null
         /\ inflight' = Append(inflight, [payload |-> orderPayload(n, a, t), total |-> t])
         /\ calls' = calls + 1

\* OrderForm.handleSubmit
SubmitForm ==
    /\ MainViewMounted
    /\ IF canSubmit
       THEN /\ accepted < MaxSubmits
            /\ accepted' = accepted + 1
            /\ lastEvent' = Event("submit", 0, 1)
            /\ handleOrderSubmit(name, address, total)
       ELSE /\ lastEvent' = Event("submit", 0, 0)
            /\ UNCHANGED <<accepted, isSubmitting, submissionError, orderConfirmation,
                           inflight, calls>>
    /\ UNCHANGED <<cart, menuVars, formVars, unhandled>>

\* the success continuation charging the cart as it is when the answer arrives
SubmitResolvedCurrentTotal(k, now) ==
    /\ lastEvent' = Event("submitResolved", k, now)
    /\ k \in 1..Len(inflight)
    /\ orderConfirmation' = Some([orderId |-> <<"ORD-", now>>,
                                  timestamp |-> now,
                                  total |-> reduceTotal(cart)])
    /\ cart' = <<>>
    /\ isSubmitting' = FALSE
    /\ inflight' = RemoveAt(inflight, k)
    /\ UNCHANGED <<submissionError, menuVars, formVars, countVars>>

\* the success continuation without setCart([])
SubmitResolvedKeepsCart(k, now) ==
    /\ lastEvent' = Event("submitResolved", k, now)
    /\ k \in 1..Len(inflight)
    /\ orderConfirmation' = Some([orderId |-> <<"ORD-", now>>,
                                  timestamp |-> now,
                                  total |-> inflight[k].total])
    /\ isSubmitting' = FALSE
    /\ inflight' = RemoveAt(inflight, k)
    /\ UNCHANGED <<cart, submissionError, menuVars, formVars, countVars>>

\* submitOrder resolves: the rest of the try block, then finally
SubmitResolved(k, now) ==
    /\ lastEvent' = Event("submitResolved", k, now)
    /\ k \in 1..Len(inflight)
    /\ orderConfirmation' = Some([orderId |-> <<"ORD-", now>>,
                                  timestamp |-> now,
                                  total |-> inflight[k].total])
    /\ cart' = <<>>
    /\ isSubmitting' = FALSE
    /\ inflight' = RemoveAt(inflight, k)
    /\ UNCHANGED <<submissionError, menuVars, formVars, countVars>>

\* handleOrderSubmit clearing isSubmitting at the end of the try block only
SubmitRejectedWithoutFinally(k, error) ==
    /\ lastEvent' = Event("submitRejected", k, Len(error.message))
    /\ k \in 1..Len(inflight)
    /\ submissionError' = Some(submissionErrorText(error))
    /\ inflight' = RemoveAt(inflight, k)
    /\ UNCHANGED <<isSubmitting, cart, orderConfirmation, menuVars, formVars, countVars>>

\* handleOrderSubmit with try/finally only: the rejection leaves the handler
SubmitRejectedRethrows(k, error) ==
    /\ lastEvent' = Event("submitRejected", k, Len(error.message))
    /\ k \in 1..Len(inflight)
    /\ unhandled' = unhandled + 1
    /\ isSubmitting' = FALSE
    /\ inflight' = RemoveAt(inflight, k)
    /\ UNCHANGED <<cart, submissionError, orderConfirmation, menuVars, formVars,
                   accepted, calls>>

\* submitOrder rejects: the catch block, then finally
SubmitRejected(k, error) ==
    /\ lastEvent' = Event("submitRejected", k, Len(error.message))
    /\ k \in 1..Len(inflight)
    /\ submissionError' = Some(submissionErrorText(error))
    /\ isSubmitting' = FALSE
    /\ inflight' = RemoveAt(inflight, k)
    /\ UNCHANGED <<cart, orderConfirmation, menuVars, formVars, countVars>>

\* confirmation screen: <button onClick={() => setOrderConfirmation(null)}>;
\* the main view mounts again with a fresh OrderForm
PlaceAnotherOrder ==
    /\ lastEvent' = Event("placeAnotherOrder", 0, 0)
    /\ orderConfirmation # Null
    /\ orderConfirmation' = Null
    /\ name' = <<>>
    /\ address' = <<>>
    /\ UNCHANGED <<cart, isSubmitting, submissionError, inflight, menuVars, countVars>>

---------------------------------------------------------------------------
(* Specifications *)

\* the page as the user can drive it
Next ==
    \/ (LoadMenuResolved /\ UNCHANGED addLog)
    \/ (LoadMenuRejected /\ UNCHANGED addLog)
    \/ \E i \in ClickedCards : (AddToCart(MOCK_PIZZAS[i]) /\ UNCHANGED addLog)
    \/ \E i \in 1..MaxItems : (ClickMinus(i) /\ UNCHANGED addLog)
    \/ \E i \in 1..MaxItems : (ClickPlus(i) /\ UNCHANGED addLog)
    \/ \E i \in 1..MaxItems : (ClickRemove(i) /\ UNCHANGED addLog)
    \/ \E text \in FieldInputs : (ChangeName(text) /\ UNCHANGED addLog)
    \/ \E text \in FieldInputs : (ChangeAddress(text) /\ UNCHANGED addLog)
    \/ (SubmitForm /\ UNCHANGED addLog)
    \/ \E k \in 1..MaxSubmits, now \in Times : (SubmitResolved(k, now) /\ UNCHANGED addLog)
    \/ \E k \in 1..MaxSubmits, error \in SubmitErrors : (SubmitRejected(k, error) /\ UNCHANGED addLog)
    \/ (PlaceAnotherOrder /\ UNCHANGED addLog)

Spec == Init /\ [][Next]_vars

\* the page, with the two quantity handlers also called with arbitrary arguments
NextApi ==
    \/ Next
    \/ \E pizzaId \in CallIds, newQuantity \in CallQuantities :
            (CallUpdateQuantity(pizzaId, newQuantity) /\ UNCHANGED addLog)
    \/ \E pizzaId \in CallIds : (CallRemoveItem(pizzaId) /\ UNCHANGED addLog)

SpecApi == Init /\ [][NextApi]_vars

\* the promise of submitOrder settles: its timer fires after 1500 ms
SubmitSettles ==
    \/ \E k \in 1..MaxSubmits, now \in Times : (SubmitResolved(k, now) /\ UNCHANGED addLog)
    \/ \E k \in 1..MaxSubmits, error \in SubmitErrors : (SubmitRejected(k, error) /\ UNCHANGED addLog)

\* the page with an order service that answers every call
SpecFair == Init /\ [][Next]_vars /\ WF_vars(SubmitSettles)

\* the cart under AddItem and positive quantity changes only, with the log of the AddItem calls
LoggedAddToCart(pizza) ==
    /\ Len(addLog) < MaxAdds
    /\ AddToCart(pizza)
    /\ addLog' = Append(addLog, pizza.id)

NextAdds ==
    \/ (LoadMenuResolved /\ UNCHANGED addLog)
    \/ \E i \in ClickedCards : LoggedAddToCart(MOCK_PIZZAS[i])
    \/ \E i \in 1..MaxItems : (ClickMinus(i) /\ UNCHANGED addLog)
    \/ \E i \in 1..MaxItems : (ClickPlus(i) /\ UNCHANGED addLog)

SpecAdds == Init /\ [][NextAdds]_vars

---------------------------------------------------------------------------
(* Vocabulary of the properties *)

\* a text with nothing but white space in it
IsBlank(text) == \A i \in 1..Len(text) : text[i] \in {" ", "\t", "\n"}

Ids(c) == [i \in 1..Len(c) |-> c[i].id]

HasLine(c, id) == \E i \in 1..Len(c) : c[i].id = id

\* the catalog's price of an item
PriceOf(id) == MOCK_PIZZAS[CHOOSE i \in 1..Len(MOCK_PIZZAS) : MOCK_PIZZAS[i].id = id].price

\* sum of price * quantity over cart lines
RECURSIVE Subtotal(_)
Subtotal(c) ==
    IF c = <<>> THEN 0 ELSE Head(c).price * Head(c).quantity + Subtotal(Tail(c))

\* sum of catalog price * quantity over the lines of a payload
RECURSIVE ItemsSubtotal(_)
ItemsSubtotal(items) ==
    IF items = <<>> THEN 0
    ELSE PriceOf(Head(items).pizzaId) * Head(items).quantity + ItemsSubtotal(Tail(items))

\* part occurs in text as a contiguous run
Contains(text, part) ==
    \E i \in 0..(Len(text) - Len(part)) : SubSeq(text, i + 1, i + Len(part)) = part

\* c with the line of id deleted
Without(c, id) == SelectSeq(c, LAMBDA line : line.id # id)

\* the distinct elements of log in the order of their first occurrence
RECURSIVE FirstOccurrences(_)
FirstOccurrences(log) ==
    IF log = <<>> THEN <<>>
    ELSE LET rest == FirstOccurrences(SubSeq(log, 1, Len(log) - 1))
             x == log[Len(log)]
         IN  IF \E i \in 1..Len(rest) : rest[i] = x THEN rest ELSE Append(rest, x)

\* the step is an invocation of OrderForm.handleSubmit
SubmitStep == lastEvent'.op = "submit"

---------------------------------------------------------------------------
(* Checkout *)

\* C1: a Submit attempt made while the cart is empty, or while the name or the
\* address is blank after trimming, or while a submission is in flight, is
\* rejected: no submitOrder call is issued and cart, isSubmitting,
\* submissionError and orderConfirmation stay as they were.
C1_SubmitRejected ==
    [][ (/\ SubmitStep
         /\ \/ Len(cart) = 0
            \/ IsBlank(name)
            \/ IsBlank(address)
            \/ isSubmitting)
        => /\ calls' = calls
           /\ inflight' = inflight
           /\ UNCHANGED <<cart, isSubmitting, submissionError, orderConfirmation>> ]_vars

\* a rejected attempt with a filled cart, a white-space-only name and a real address
C1_Witness ==
    /\ lastEvent = Event("submit", 0, 0)
    /\ Len(cart) > 0
    /\ name = <<" ", " ">>
    /\ ~IsBlank(address)
    /\ ~isSubmitting

\* C2: at most one submitOrder call is outstanding, and the number of calls
\* issued equals the number of accepted Submit invocations (nothing queued,
\* nothing run in parallel, nothing re-issued after a failure).
C2_OneCallPerAcceptedSubmit ==
    /\ Len(inflight) <= 1
    /\ calls = accepted
    /\ isSubmitting <=> Len(inflight) = 1

\* a second Submit arrived while the first was in flight and was turned away
C2_Witness ==
    /\ lastEvent = Event("submit", 0, 0)
    /\ isSubmitting
    /\ calls = 1
    /\ Len(inflight) = 1

\* C3: when the in-flight submission succeeds, one step sets orderConfirmation
\* to the returned orderId and timestamp with the total of the cart as it was
\* at Submit, empties the cart, ends the flight and leaves submissionError empty.
C3_SuccessStep ==
    [][ \A k \in 1..MaxSubmits, now \in Times :
          SubmitResolved(k, now)
          => /\ orderConfirmation' =
                    Some([orderId |-> <<"ORD-", now>>, timestamp |-> now,
                          total |-> ItemsSubtotal(inflight[k].payload.items)])
             /\ cart' = <<>>
             /\ ~isSubmitting'
             /\ inflight' = <<>>
             /\ submissionError' = Null ]_vars

\* confirmed for two Margheritas and one Pepperoni Feast
C3_Witness ==
    /\ lastEvent.op = "submitResolved"
    /\ orderConfirmation # Null
    /\ orderConfirmation[1].total = 4000
    /\ cart = <<>>

\* C4: when the in-flight submission fails with a reason, the step ends the
\* flight with a non-empty submissionError containing the reason, keeps the
\* cart as it was and leaves orderConfirmation unset.
C4_FailureStep ==
    [][ \A k \in 1..MaxSubmits, error \in SubmitErrors :
          (SubmitRejected(k, error) /\ error.message # Null)
          => /\ ~isSubmitting'
             /\ inflight' = <<>>
             /\ submissionError' # Null
             /\ submissionError'[1] # <<>>
             /\ Contains(submissionError'[1], error.message)
             /\ cart' = cart
             /\ orderConfirmation' = Null ]_vars

\* a failure with the server's reason, the two lines still in the cart
C4_Witness ==
    /\ lastEvent.op = "submitRejected"
    /\ lastEvent.n > 0
    /\ Len(cart) = 2
    /\ submissionError # Null
    /\ orderConfirmation = Null

\* C5: the payload of an accepted Submit lists exactly the lines of the cart
\* that the earlier cart operations produced (id and quantity, in cart order)
\* and its total is the sum of price * quantity over those lines.
C5_PayloadIsCart ==
    [][ (SubmitStep /\ accepted' = accepted + 1)
        => /\ Len(inflight') = Len(inflight) + 1
           /\ LET payload == inflight'[Len(inflight')].payload
              IN  /\ Len(payload.items) = Len(cart)
                  /\ \A i \in 1..Len(cart) :
                        /\ payload.items[i].pizzaId = cart[i].id
                        /\ payload.items[i].quantity = cart[i].quantity
                  /\ payload.total = Subtotal(cart) ]_vars

\* two Margheritas and one Pepperoni Feast on their way
C5_Witness ==
    /\ lastEvent = Event("submit", 0, 1)
    /\ Len(inflight) = 1
    /\ inflight[1].payload.items = <<[pizzaId |-> 1, quantity |-> 2], [pizzaId |-> 2, quantity |-> 1]>>
    /\ inflight[1].payload.total = 4000

\* C6: from a Confirmed state, Place Another Order yields an Idle state with an
\* empty cart, no submissionError and no orderConfirmation.
C6_StartNewOrder ==
    [][ (orderConfirmation # Null /\ lastEvent'.op = "placeAnotherOrder")
        => /\ orderConfirmation' = Null
           /\ ~isSubmitting'
           /\ inflight' = <<>>
           /\ cart' = <<>>
           /\ submissionError' = Null ]_vars

\* the page right after Place Another Order
C6_Witness ==
    /\ lastEvent.op = "placeAnotherOrder"
    /\ orderConfirmation = Null
    /\ cart = <<>>
    /\ calls > 0

---------------------------------------------------------------------------
(* Cart *)

\* C7: AddItem(item) on a cart with a line for item.id raises that line's
\* quantity by exactly 1 and keeps the number, order and other fields of all
\* lines; on a cart without one it appends one line with quantity 1 and the
\* item's id, name and price and keeps all existing lines.
C7_AddItem ==
    [][ \A p \in ClickedCards :
          LET item == MOCK_PIZZAS[p] IN
          AddToCart(item)
          => IF HasLine(cart, item.id)
             THEN /\ Len(cart') = Len(cart)
                  /\ \A i \in 1..Len(cart) :
                        IF cart[i].id = item.id
                        THEN cart'[i] = [cart[i] EXCEPT !.quantity = cart[i].quantity + 1]
                        ELSE cart'[i] = cart[i]
             ELSE /\ Len(cart') = Len(cart) + 1
                  /\ SubSeq(cart', 1, Len(cart)) = cart
                  /\ cart'[Len(cart')].quantity = 1
                  /\ cart'[Len(cart')].id = item.id
                  /\ cart'[Len(cart')].name = item.name
                  /\ cart'[Len(cart')].price = item.price ]_vars

\* the second AddItem of the Pepperoni Feast, behind a Margherita: one line, quantity 2
C7_Witness ==
    /\ lastEvent = Event("addToCart", 2, 0)
    /\ Len(cart) = 2
    /\ cart[1].id = 1
    /\ cart[2].id = 2
    /\ cart[2].quantity = 2

\* C8: the cart holds at most one line per item id and every line has an
\* integer quantity >= 1.
C8_CartWellFormed ==
    /\ \A i, j \in 1..Len(cart) : cart[i].id = cart[j].id => i = j
    /\ \A i \in 1..Len(cart) : cart[i].quantity \in Nat /\ cart[i].quantity >= 1

\* the quantity of the Margherita was set to 0: its line is gone, the other one is kept
C8_Witness ==
    /\ lastEvent = Event("updateQuantity", 1, 0)
    /\ Len(cart) = 1
    /\ cart[1].id = 2

\* the variables that handleUpdateQuantity and handleRemoveItem leave alone
CartFrame ==
    UNCHANGED <<isSubmitting, submissionError, orderConfirmation, inflight,
                menuVars, formVars, countVars>>

\* C9: SetQuantity(id, n) with n <= 0 yields the state RemoveItem(id) yields
\* (the line of id deleted, everything else kept); with n >= 1 it sets only
\* that line's quantity, in place; both change nothing when id has no line.
C9_SetQuantityRemove ==
    [][ LET id == lastEvent'.id
            n == lastEvent'.n
        IN  /\ lastEvent'.op = "updateQuantity"
               => /\ CartFrame
                  /\ n <= 0 => cart' = Without(cart, id)
                  /\ n >= 1 =>
                        /\ Len(cart') = Len(cart)
                        /\ \A i \in 1..Len(cart) :
                              IF cart[i].id = id
                              THEN cart'[i] = [cart[i] EXCEPT !.quantity = n]
                              ELSE cart'[i] = cart[i]
                  /\ ~HasLine(cart, id) => cart' = cart
            /\ lastEvent'.op = "removeItem"
               => /\ CartFrame
                  /\ cart' = Without(cart, id)
                  /\ ~HasLine(cart, id) => cart' = cart ]_vars

\* SetQuantity(2, -1) took the Pepperoni Feast out and left the two Margheritas
C9_Witness ==
    /\ lastEvent = Event("updateQuantity", 2, 0 - 1)
    /\ ~HasLine(cart, 2)
    /\ Len(cart) = 1
    /\ cart[1].id = 1
    /\ cart[1].quantity = 2

\* C10: after any sequence of AddItem calls from an empty cart, mixed with
\* positive quantity changes, the cart has one line per distinct item added,
\* in the order in which the items were first added.
C10_FirstAddOrder ==
    /\ Ids(cart) = FirstOccurrences(addLog)
    /\ Len(cart) = Cardinality({addLog[i] : i \in 1..Len(addLog)})

\* Pepperoni Feast first, then Margherita, and after a "-" click both of them again
C10_Witness ==
    /\ addLog = <<2, 1, 2, 1>>
    /\ Ids(cart) = <<2, 1>>
    /\ lastEvent.op = "updateQuantity"

---------------------------------------------------------------------------
(* Menu loading and failures *)

\* C11: the menu starts in Loading with one fetchPizzas call issued; it moves
\* to Loaded(items) or to Failed(reason), never to both; once it has left
\* Loading its state never changes and no further fetch is issued.
C11_MenuLoadsOnce ==
    /\ (isPizzaLoading = TRUE /\ menuFetch = "pending" /\ fetchCalls = 1)
    /\ [](/\ fetchCalls = 1
          /\ isPizzaLoading <=> menuFetch = "pending"
          /\ isPizzaLoading => pizzas = <<>> /\ pizzaError = Null
          /\ menuFetch = "resolved" => pizzas # <<>> /\ pizzaError = Null
          /\ menuFetch = "rejected" => pizzas = <<>> /\ pizzaError # Null)
    /\ [][~isPizzaLoading => UNCHANGED menuVars]_vars

\* the menu failed to load and the page has been used since
C11_Witness ==
    /\ menuFetch = "rejected"
    /\ pizzaError = Some(PizzaErrorMessage)
    /\ lastEvent.op = "changeAddress"
    /\ fetchCalls = 1

\* C12: every failure of the menu fetch and of the order submission, also one
\* without a reason, ends in the error state (pizzaError set; submissionError
\* non-empty, generic when there is no reason) with the pending flag cleared,
\* and no rejection leaves its handler.
C12_FailuresAbsorbed ==
    /\ [](unhandled = 0)
    /\ [][ /\ lastEvent'.op = "menuRejected"
              => /\ pizzaError' # Null
                 /\ pizzaError'[1] # <<>>
                 /\ ~isPizzaLoading'
           /\ \A k \in 1..MaxSubmits, error \in SubmitErrors :
                SubmitRejected(k, error)
                => /\ submissionError' # Null
                   /\ submissionError'[1] # <<>>
                   /\ error.message = Null
                        => submissionError'[1] = <<"Order", "submission", "failed:",
                                                   "Unknown", "Server", "Error">>
                   /\ ~isSubmitting'
                   /\ inflight' = <<>> ]_vars

\* a submission failed without a reason: the generic message is shown
C12_Witness ==
    /\ lastEvent = Event("submitRejected", 1, 0)
    /\ submissionError = Some(<<"Order", "submission", "failed:", "Unknown", "Server", "Error">>)
    /\ ~isSubmitting
    /\ unhandled = 0

---------------------------------------------------------------------------
(* Checkout, continued *)

\* C13: the draft (name, address) does not change while a submission is in
\* flight; after a failed submission it holds the values that were submitted
\* and can be edited again, and a Submit made right after the failure is
\* accepted whenever the cart is not empty.
C13_DraftKept ==
    /\ [][ /\ isSubmitting => UNCHANGED <<name, address>>
           /\ \A k \in 1..MaxSubmits, error \in SubmitErrors :
                SubmitRejected(k, error)
                => /\ name' = inflight[k].payload.customerName
                   /\ address' = inflight[k].payload.address
           /\ (/\ lastEvent.op = "submitRejected"
               /\ lastEvent'.op = "submit"
               /\ Len(cart) > 0)
              => /\ accepted' = accepted + 1
                 /\ calls' = calls + 1
                 /\ isSubmitting' ]_vars
    /\ [](lastEvent.op = "submitRejected"
            => \A text \in FieldInputs :
                  /\ ENABLED (ChangeName(text) /\ UNCHANGED addLog)
                  /\ ENABLED (ChangeAddress(text) /\ UNCHANGED addLog))

\* right after a failure: the form still holds what was submitted, the cart is filled
C13_Witness ==
    /\ lastEvent.op = "submitRejected"
    /\ name = <<" ", "A", "l", " ">>
    /\ address = <<" ", "A", "l", " ">>
    /\ Len(cart) > 0
    /\ ~isSubmitting

\* C14: while orderConfirmation is set no AddItem, SetQuantity, RemoveItem or
\* Submit can take effect: cart (empty), submissionError (empty), isSubmitting
\* (false) and the confirmation stay as they are until Place Another Order.
C14_ConfirmedTerminal ==
    /\ [](orderConfirmation # Null
            => /\ cart = <<>>
               /\ submissionError = Null
               /\ isSubmitting = FALSE
               /\ inflight = <<>>
               /\ \A i \in ClickedCards : ~ENABLED (AddToCart(MOCK_PIZZAS[i]) /\ UNCHANGED addLog)
               /\ \A i \in 1..MaxItems :
                     /\ ~ENABLED (ClickMinus(i) /\ UNCHANGED addLog)
                     /\ ~ENABLED (ClickPlus(i) /\ UNCHANGED addLog)
                     /\ ~ENABLED (ClickRemove(i) /\ UNCHANGED addLog)
               /\ ~ENABLED (SubmitForm /\ UNCHANGED addLog))
    /\ [][ orderConfirmation # Null
           => \/ lastEvent'.op = "placeAnotherOrder"
              \/ UNCHANGED <<cart, submissionError, isSubmitting, orderConfirmation>> ]_vars

\* the confirmation screen is up
C14_Witness ==
    /\ orderConfirmation # Null
    /\ lastEvent.op = "submitResolved"
    /\ pizzas = MOCK_PIZZAS
    /\ ~IsBlank(name)

---------------------------------------------------------------------------
(* Cart, continued *)

\* C15: of the cart operations only AddItem touches the submission state, and
\* only by clearing submissionError; SetQuantity and RemoveItem change nothing
\* but the cart, so an error shown before them is still shown after them.
C15_CartOpsFrame ==
    [][ /\ lastEvent'.op = "addToCart"
           => /\ submissionError' = Null
              /\ UNCHANGED <<isSubmitting, orderConfirmation, inflight, menuVars>>
        /\ lastEvent'.op \in {"updateQuantity", "removeItem"}
           => UNCHANGED <<isSubmitting, submissionError, orderConfirmation, inflight,
                          menuVars, formVars, countVars>> ]_vars

\* the last line was removed after a failed submission: the error is still shown
C15_Witness ==
    /\ lastEvent.op = "removeItem"
    /\ cart = <<>>
    /\ submissionError # Null

---------------------------------------------------------------------------
(* Submission lifecycle *)

\* C16: given that the order service settles every call, every accepted Submit
\* leaves the Submitting state, whatever is done to the cart meanwhile, and
\* when isSubmitting turns false either orderConfirmation is set or
\* submissionError is non-empty.
C16_SubmitTerminates ==
    /\ (isSubmitting = TRUE) ~> (isSubmitting = FALSE)
    /\ [][ (isSubmitting /\ ~isSubmitting')
           => \/ orderConfirmation' # Null
              \/ (submissionError' # Null /\ submissionError'[1] # <<>>) ]_vars

\* a submission has failed after the cart was emptied during its flight
C16_Witness ==
    /\ lastEvent.op = "submitRejected"
    /\ isSubmitting = FALSE
    /\ submissionError # Null
    /\ cart = <<>>
    /\ calls = 1

\* C17: the checkout is in exactly one of Idle, Idle-with-error, Submitting and
\* Confirmed: "isSubmitting", "submissionError is set" and "orderConfirmation
\* is set" exclude each other pairwise.
C17_OneCheckoutState ==
    /\ ~(isSubmitting /\ submissionError # Null)
    /\ ~(isSubmitting /\ orderConfirmation # Null)
    /\ ~(submissionError # Null /\ orderConfirmation # Null)

\* a second submission is in flight: the error of the first, if any, is gone
C17_Witness ==
    /\ lastEvent = Event("submit", 0, 1)
    /\ calls = 2
    /\ isSubmitting
    /\ submissionError = Null
    /\ orderConfirmation = Null

\* C18: the cart does not change between an accepted Submit and its
\* resolution: when a submission succeeds, the cart that is emptied consists
\* of exactly the lines (ids and quantities) sent in its payload.
C18_CartFrozenInFlight ==
    [][ /\ (isSubmitting /\ isSubmitting') => cart' = cart
        /\ \A k \in 1..MaxSubmits, now \in Times :
             SubmitResolved(k, now)
             => /\ Len(cart) = Len(inflight[k].payload.items)
                /\ \A i \in 1..Len(cart) :
                      /\ cart[i].id = inflight[k].payload.items[i].pizzaId
                      /\ cart[i].quantity = inflight[k].payload.items[i].quantity ]_vars

---------------------------------------------------------------------------
(* Menu and cart *)

\* C19: the cart is non-empty only if the menu is Loaded, and every line
\* carries the id, name and price of a catalog item; while the menu is Loading
\* or Failed no item can be added, the cart is empty, no Submit has been
\* accepted and submitOrder has not been called.
C19_CartNeedsMenu ==
    /\ cart # <<>> => (menuFetch = "resolved" /\ ~isPizzaLoading /\ pizzaError = Null)
    /\ \A i \in 1..Len(cart) :
          \E j \in 1..Len(pizzas) :
             /\ pizzas[j].id = cart[i].id
             /\ pizzas[j].name = cart[i].name
             /\ pizzas[j].price = cart[i].price
    /\ (isPizzaLoading \/ pizzaError # Null)
          => /\ cart = <<>>
             /\ accepted = 0
             /\ calls = 0
             /\ inflight = <<>>
             /\ ~isSubmitting
             /\ \A i \in 1..Len(MOCK_PIZZAS) :
                   ~ENABLED (AddToCart(MOCK_PIZZAS[i]) /\ UNCHANGED addLog)

\* the menu failed; a Submit with the form filled in was turned away
C19_Witness ==
    /\ lastEvent = Event("submit", 0, 0)
    /\ menuFetch = "rejected"
    /\ ~IsBlank(name)
    /\ ~IsBlank(address)
    /\ cart = <<>>
    /\ calls = 0

====
